---- MODULE Spec2Model ----
(***************************************************************************)
(* ShellBuddy (shellbuddy.py): the turn-taking loop of main(), the         *)
(* selection parser, the command parser and the command executor.          *)
(*                                                                         *)
(* Text is a sequence of characters (one-character strings).  A few fixed  *)
(* literals of the program that are never parsed again (the emoji markers, *)
(* the fixed parts of messages) are single tokens of such a sequence.      *)
(***************************************************************************)
EXTENDS Integers, Sequences, FiniteSets, TLC

VARIABLES
    pc,               \* position of main(): which blocking call comes next
    chat_history,     \* main.chat_history: sequence of [role, parts]
    ai_is_working,    \* main.ai_is_working
    commands,         \* main.commands of the last parsed response
    keuze,            \* main.keuze, the decision value
    to_execute,       \* main.to_execute
    executed_outputs, \* main.executed_outputs
    tool_output_str,  \* main.tool_output_str
    cwd,              \* the process working directory (os.getcwd())
    last_event,       \* history: the step main() took last
    run_log,          \* history: commands handed to execute_command since the last decision
    out_log,          \* history: what execute_command returned for each of them
    typed,            \* history: the line typed at the prompt read last
    ex_in,            \* execute_command probe: the command argument
    ex,               \* history: the last execute_command call and how it went
    sel_in,           \* parse_selection probe: selection_str
    sel_max,          \* parse_selection probe: max_num
    sel_out,          \* parse_selection probe: the returned list, or "none" before the call
    par_in,           \* parse_ai_response probe: text
    par_out           \* parse_ai_response probe: what the call returned

vars == <<pc, chat_history, ai_is_working, commands, keuze, to_execute,
          executed_outputs, tool_output_str, cwd, last_event, run_log,
          out_log, typed, ex_in, ex, sel_in, sel_max, sel_out, par_in, par_out>>

mainVars == <<pc, chat_history, ai_is_working, commands, keuze, to_execute,
              executed_outputs, tool_output_str, last_event, run_log,
              out_log, typed>>

selVars == <<sel_in, sel_max, sel_out>>

parVars == <<par_in, par_out>>

(***************************************************************************)
(* Bounds                                                                  *)
(***************************************************************************)
MaxSelLen == 4      \* longest selection string drawn from SelAlphabet
MaxNum == 5         \* largest max_num of the parse_selection probe
MaxTurns == 5       \* longest chat_history explored
MaxPieces == 6      \* most pieces a text of the parse_ai_response probe is built from

(***************************************************************************)
(* str helpers                                                             *)
(***************************************************************************)
Whitespace == {" ", "\t", "\n", "\r"}

Digits == <<"0", "1", "2", "3", "4", "5", "6", "7", "8", "9">>

UpperChars == <<"A", "B", "C", "D", "E", "F", "G", "H", "I", "J", "K", "L", "M",
                "N", "O", "P", "Q", "R", "S", "T", "U", "V", "W", "X", "Y", "Z">>

LowerChars == <<"a", "b", "c", "d", "e", "f", "g", "h", "i", "j", "k", "l", "m",
                "n", "o", "p", "q", "r", "s", "t", "u", "v", "w", "x", "y", "z">>

LowerChar(c) ==
    IF \E i \in 1..26 : UpperChars[i] = c
    THEN LowerChars[CHOOSE i \in 1..26 : UpperChars[i] = c]
    ELSE c

\* str.lower()
Lower(s) == [i \in 1..Len(s) |-> LowerChar(s[i])]

\* str.lstrip()
RECURSIVE LStrip(_)
LStrip(s) ==
    IF s # <<>> /\ Head(s) \in Whitespace THEN LStrip(Tail(s)) ELSE s

\* str.rstrip()
RECURSIVE RStrip(_)
RStrip(s) ==
    IF s # <<>> /\ s[Len(s)] \in Whitespace
    THEN RStrip(SubSeq(s, 1, Len(s) - 1))
    ELSE s

\* str.strip()
Strip(s) == RStrip(LStrip(s))

\* str.startswith(p)
StartsWith(s, p) == Len(s) >= Len(p) /\ SubSeq(s, 1, Len(p)) = p

\* c in s, for one character c
Contains(s, c) == \E i \in 1..Len(s) : s[i] = c

\* s[i:] starts with p, i a 1-based position
MatchAt(s, i, p) ==
    i + Len(p) - 1 <= Len(s) /\ SubSeq(s, i, i + Len(p) - 1) = p

\* str.split(c) for a one-character separator: "" gives [""], "a,,b" gives ["a","","b"]
RECURSIVE SplitAcc(_, _, _)
SplitAcc(s, c, cur) ==
    IF s = <<>> THEN <<cur>>
    ELSE IF Head(s) = c THEN <<cur>> \o SplitAcc(Tail(s), c, <<>>)
    ELSE SplitAcc(Tail(s), c, Append(cur, Head(s)))

Split(s, c) == SplitAcc(s, c, <<>>)

\* "sep".join(list)
RECURSIVE Join(_, _)
Join(list, sep) ==
    IF list = <<>> THEN <<>>
    ELSE IF Len(list) = 1 THEN list[1]
    ELSE list[1] \o sep \o Join(Tail(list), sep)

DigitVal(c) == (CHOOSE i \in 1..10 : Digits[i] = c) - 1

IsDigit(c) == \E i \in 1..10 : Digits[i] = c

RECURSIVE DecVal(_, _)
DecVal(s, acc) ==
    IF s = <<>> THEN acc ELSE DecVal(Tail(s), 10 * acc + DigitVal(Head(s)))

\* int(s) for a str: surrounding whitespace ignored, an optional sign, then
\* one or more decimal digits; anything else raises ValueError (ok = FALSE).
\* (Digit-group underscores are outside the modelled alphabet.)
PyInt(s) ==
    LET t == Strip(s)
        signed == t # <<>> /\ Head(t) \in {"+", "-"}
        body == IF signed THEN Tail(t) ELSE t
    IN  IF body # <<>> /\ \A i \in 1..Len(body) : IsDigit(body[i])
        THEN [ok |-> TRUE,
              val |-> IF signed /\ Head(t) = "-" THEN 0 - DecVal(body, 0)
                      ELSE DecVal(body, 0)]
        ELSE [ok |-> FALSE, val |-> 0]

\* sorted(list(S)) for a set of integers
RECURSIVE Sorted(_)
Sorted(S) ==
    IF S = {} THEN <<>>
    ELSE LET m == CHOOSE x \in S : \A y \in S : x <= y
         IN  <<m>> \o Sorted(S \ {m})

(***************************************************************************)
(* parse_selection                                                         *)
(***************************************************************************)
SelRange_offByOne(start, end) == start..(end - 1)

\* range(start - 1, end)
SelRange(start, end) == (start - 1)..(end - 1)

\* the guard of the range branch
RangeOk(start, end, max_num) == 1 <= start /\ start <= end /\ end <= max_num

NumOk_noUpper(num, max_num) == 1 <= num

\* the guard of the single-number branch
NumOk(num, max_num) == 1 <= num /\ num <= max_num

\* one iteration of the for loop: what the part adds to indices
PartIndices(raw, max_num) ==
    LET part == Strip(raw) IN
    IF Contains(part, "-")
    THEN LET pieces == Split(part, "-") IN
         IF Len(pieces) = 2 /\ PyInt(pieces[1]).ok /\ PyInt(pieces[2]).ok
         THEN IF RangeOk(PyInt(pieces[1]).val, PyInt(pieces[2]).val, max_num)
              THEN SelRange(PyInt(pieces[1]).val, PyInt(pieces[2]).val)
              ELSE {}
         ELSE {}      \* ValueError: continue
    ELSE IF PyInt(part).ok
         THEN IF NumOk(PyInt(part).val, max_num)
              THEN {PyInt(part).val - 1}
              ELSE {}
         ELSE {}      \* ValueError: continue

\* the for loop over parts, indices being the set built so far
RECURSIVE SelLoop(_, _, _)
SelLoop(parts, max_num, indices) ==
    IF parts = <<>> THEN indices
    ELSE SelLoop(Tail(parts), max_num, indices \cup PartIndices(Head(parts), max_num))

parse_selection(selection_str, max_num) ==
    Sorted(SelLoop(Split(selection_str, ","), max_num, {}))

(***************************************************************************)
(* parse_ai_response                                                       *)
(***************************************************************************)
BT == "[backtick]"                  \* the character U+0060

FenceTag == <<BT, BT, BT, "b", "a", "s", "h">>

FenceOpen == FenceTag \o <<"\n">>

FenceClose == <<"\n", BT, BT, BT>>

LineBreaks == {"\n", "\r"}

\* str.splitlines(), up to empty lines (which the caller drops): a "\r\n"
\* pair is cut twice and leaves an empty line between
RECURSIVE SplitLinesAcc(_, _)
SplitLinesAcc(s, cur) ==
    IF s = <<>> THEN (IF cur = <<>> THEN <<>> ELSE <<cur>>)
    ELSE IF Head(s) \in LineBreaks THEN <<cur>> \o SplitLinesAcc(Tail(s), <<>>)
    ELSE SplitLinesAcc(Tail(s), Append(cur, Head(s)))

SplitLines(s) == SplitLinesAcc(s, <<>>)

\* [cmd.strip() for cmd in lines if cmd.strip()]
RECURSIVE StrippedNonEmpty(_)
StrippedNonEmpty(lines) ==
    IF lines = <<>> THEN <<>>
    ELSE IF Strip(Head(lines)) = <<>> THEN StrippedNonEmpty(Tail(lines))
    ELSE <<Strip(Head(lines))>> \o StrippedNonEmpty(Tail(lines))

\* positions j at which the closing newline-and-fence can match after an opening at i
CloseAfter(text, i) ==
    { j \in (i + Len(FenceOpen))..Len(text) : MatchAt(text, j, FenceClose) }

\* re.search(FenceOpen (.*?) FenceClose, text, re.DOTALL): the leftmost opening
\* that has a closing after it, with the nearest such closing
FenceStarts(text) ==
    { i \in 1..Len(text) : MatchAt(text, i, FenceOpen) /\ CloseAfter(text, i) # {} }

MinOf(S) == CHOOSE x \in S : \A y \in S : x <= y

\* match.group(1)
FenceBody(text) ==
    LET i == MinOf(FenceStarts(text))
        j == MinOf(CloseAfter(text, i))
    IN  SubSeq(text, i + Len(FenceOpen), j - 1)

\* text.split(FenceTag)[0]
BeforeTag(text) ==
    LET hits == { k \in 1..Len(text) : MatchAt(text, k, FenceTag) }
    IN  IF hits = {} THEN text ELSE SubSeq(text, 1, MinOf(hits) - 1)

parse_ai_response(text) ==
    IF FenceStarts(text) # {}
    THEN [explanation |-> Strip(BeforeTag(text)),
          commands |-> StrippedNonEmpty(SplitLines(Strip(FenceBody(text))))]
    ELSE [explanation |-> Strip(text), commands |-> <<>>]

\* no call of parse_ai_response yet
NotParsed == [called |-> FALSE, explanation |-> <<>>, commands |-> <<>>]

(***************************************************************************)
(* execute_command                                                         *)
(***************************************************************************)
OkMarker == "[check-mark]"          \* the U+2705 prefix of success messages

WarningMarker == "[warning-sign]"   \* the U+26A0 U+FE0F prefix of warning messages

Home == <<"/", "h">>                \* the user's home directory

\* directories os.chdir can enter
Dirs == { <<"/">>, <<"/", "t", "m", "p">>, Home }

\* directories that exist but cannot be entered (os.chdir: PermissionError)
LockedDirs == { <<"/", "l", "k">> }

\* os.path.expanduser: a leading "~" (alone or before "/") becomes the home directory
expanduser(path) ==
    IF path # <<>> /\ Head(path) = "~" /\ (Len(path) = 1 \/ path[2] = "/")
    THEN Home \o Tail(path)
    ELSE path

\* the directory a path names, seen from the working directory dir
Resolve(dir, path) ==
    IF path # <<>> /\ Head(path) = "/" THEN path
    ELSE IF dir = <<"/">> THEN dir \o path
    ELSE dir \o <<"/">> \o path

CdFailure_moved(dir, expanded_dir) ==
    [output |-> <<WarningMarker, " Error in 'cd': ",
                  IF Resolve(dir, expanded_dir) \in LockedDirs
                  THEN "PermissionError" ELSE "FileNotFoundError">>,
     cwd |-> Resolve(dir, expanded_dir), path |-> "chdir", how |-> "chdir_failed",
     rc |-> 0, stdout |-> <<>>, stderr |-> <<>>, raised |-> FALSE]

CdFailure_raises(dir, expanded_dir) ==
    [output |-> <<>>,
     cwd |-> dir, path |-> "chdir", how |-> "chdir_failed",
     rc |-> 0, stdout |-> <<>>, stderr |-> <<>>, raised |-> TRUE]

\* os.chdir raised: the except branch of the cd case
CdFailure(dir, expanded_dir) ==
    [output |-> <<WarningMarker, " Error in 'cd': ",
                  IF Resolve(dir, expanded_dir) \in LockedDirs
                  THEN "PermissionError" ELSE "FileNotFoundError">>,
     cwd |-> dir, path |-> "chdir", how |-> "chdir_failed",
     rc |-> 0, stdout |-> <<>>, stderr |-> <<>>, raised |-> FALSE]

\* os.chdir returned: the working directory is the target, named in the message
CdSuccess(dir, expanded_dir) ==
    [output |-> <<OkMarker, " (Working directory changed to: ">>
                \o Resolve(dir, expanded_dir) \o <<")">>,
     cwd |-> Resolve(dir, expanded_dir), path |-> "chdir", how |-> "chdir_ok",
     rc |-> 0, stdout |-> <<>>, stderr |-> <<>>, raised |-> FALSE]

\* the body of `if command.startswith("cd ")`
CdCase(command, dir) ==
    LET rest == Strip(SubSeq(command, 4, Len(command)))
        target_dir == IF rest = <<>> THEN <<"~">> ELSE rest
        expanded_dir == expanduser(target_dir)
    IN  IF Resolve(dir, expanded_dir) \in Dirs
        THEN CdSuccess(dir, expanded_dir)
        ELSE CdFailure(dir, expanded_dir)

\* What subprocess.run can do with a command: raise TimeoutExpired after the
\* 30 seconds, raise another exception (the launch fails, the output does
\* not decode), or return the exit status and the two captured streams.
Procs ==
    { [kind |-> "timeout", rc |-> 0, stdout |-> <<>>, stderr |-> <<>>],
      [kind |-> "launch_failure", rc |-> 0, stdout |-> <<>>, stderr |-> <<>>],
      [kind |-> "exit", rc |-> 0, stdout |-> <<>>, stderr |-> <<>>],
      [kind |-> "exit", rc |-> 0, stdout |-> <<"o", "k", "\n">>, stderr |-> <<>>],
      [kind |-> "exit", rc |-> 1, stdout |-> <<>>, stderr |-> <<>>],
      [kind |-> "exit", rc |-> 1, stdout |-> <<>>, stderr |-> <<"n", "o", "\n">>] }

ShellExcept_bare(command, kind) ==
    IF kind = "timeout"
    THEN <<" Command '">> \o command \o <<"' timed out (waiting for input?)">>
    ELSE <<" Execution error: ", "OSError">>

\* the two except clauses of the subprocess case
ShellExcept(command, kind) ==
    IF kind = "timeout"
    THEN <<WarningMarker, " Command '">> \o command
         \o <<"' timed out (waiting for input?)">>
    ELSE <<WarningMarker, " Execution error: ", "OSError">>

\* result.stdout.strip() + "\n" + result.stderr.strip(), stripped, or the placeholder
ShellOutput(stdout, stderr) ==
    LET output == Strip(Strip(stdout) \o <<"\n">> \o Strip(stderr))
    IN  IF output = <<>> THEN <<OkMarker, " (Command executed, no output)">>
        ELSE output

\* the subprocess case: the shell runs the command in a child process
ShellCase(command, dir, proc) ==
    [output |-> IF proc.kind = "exit" THEN ShellOutput(proc.stdout, proc.stderr)
                ELSE ShellExcept(command, proc.kind),
     cwd |-> dir, path |-> "shell", how |-> proc.kind, rc |-> proc.rc,
     stdout |-> proc.stdout, stderr |-> proc.stderr, raised |-> FALSE]

\* command.startswith("cd ")
IsCdCommand(command) == StartsWith(command, <<"c", "d", " ">>)

\* execute_command(command) called with working directory dir: every result
\* the call can have: the returned output, the working directory afterwards,
\* the path taken (chdir or shell) and what the operating system did
execute_command(command0, dir) ==
    LET command == Strip(command0) IN
    IF IsCdCommand(command)
    THEN { CdCase(command, dir) }
    ELSE { ShellCase(command, dir, proc) : proc \in Procs }

\* no call of execute_command yet
NoCall ==
    [command |-> <<>>, cwd_before |-> <<>>, output |-> <<>>,
     path |-> "none", how |-> "none", rc |-> 0, stdout |-> <<>>,
     stderr |-> <<>>, raised |-> FALSE]

\* the record kept of one call
ExRecord(command0, dir, r) ==
    [command |-> command0, cwd_before |-> dir, output |-> r.output,
     path |-> r.path, how |-> r.how, rc |-> r.rc, stdout |-> r.stdout,
     stderr |-> r.stderr, raised |-> r.raised]

(***************************************************************************)
(* main(): the turn-taking loop                                            *)
(***************************************************************************)
\* {'role': role, 'parts': [text]}
Turn(role, text) == [role |-> role, parts |-> <<text>>]

AppendTurn_keepLast(history, role, text) ==
    IF Len(history) >= 2
    THEN Append(Tail(history), Turn(role, text))
    ELSE Append(history, Turn(role, text))

\* chat_history.append({'role': role, 'parts': [text]})
AppendTurn(history, role, text) == Append(history, Turn(role, text))

\* Prompt.ask(...) without a default: the line typed, stripped
PromptAsk(line) == Strip(line)

PromptAskDefault_noDefault(line, d) == Strip(line)

\* Prompt.ask(..., default=d): an empty line gives the default, any other
\* line comes back stripped
PromptAskDefault(line, d) == IF line = <<>> THEN d ELSE Strip(line)

\* `while ai_is_working`: the call the loop blocks in next
LoopHead(working) == IF working THEN "AIWorking" ELSE "AwaitingUserInput"

SelectedCommands_asTyped(cmds, selected_indices) ==
    [k \in 1..Len(selected_indices) |->
        cmds[selected_indices[Len(selected_indices) + 1 - k] + 1]]

\* [commands[i] for i in selected_indices]
SelectedCommands(cmds, selected_indices) ==
    [k \in 1..Len(selected_indices) |-> cmds[selected_indices[k] + 1]]

ExitWords == { <<"e", "x", "i", "t">>, <<"q", "u", "i", "t">> }

IsExit_caseSensitive(user_input) == user_input \in ExitWords

\* user_input.lower() in {"exit", "quit"}
IsExit(user_input) == Lower(user_input) \in ExitWords

YesWords == { <<"y">>, <<"y", "e", "s">> }

NoWords == { <<"n">>, <<"n", "o">> }

SkippedText == <<"TOOL_OUTPUT:", "\n", "(Commands skipped by user)">>

\* f"$ {cmd}\n{output}"
OutputBlock(cmd, output) == <<"$", " ">> \o cmd \o <<"\n">> \o output

ToolOutputText_lastOnly(outputs) ==
    <<"TOOL_OUTPUT:", "\n">> \o outputs[Len(outputs)]

\* "TOOL_OUTPUT:\n" + "\n".join(executed_outputs)
ToolOutputText(outputs) == <<"TOOL_OUTPUT:", "\n">> \o Join(outputs, <<"\n">>)

\* lines the user types at the "You:" prompt
UserLines ==
    { <<"h", "i">>,
      <<"E", "x", "i", "t">>,
      <<" ", "q", "u", "i", "t">> }

\* lines the user types at the "Choice" prompt
DecisionLines ==
    { <<>>,
      <<"Y", "e", "s">>,
      <<"N">>,
      <<"n", "O">>,
      <<"3", ",", "1">>,
      <<"1", "-", "2">>,
      <<"7">>,
      <<" ", "2", "-", "1">>,
      <<"O", "k", "?">> }

\* texts the AI backend returns
Responses ==
    { <<"D", "o", "n", "e">>,
      <<"G", "o", "\n">> \o FenceOpen
          \o <<"c", "d", " ", "/", "t", "m", "p", "\n", " ", "l", "s">> \o FenceClose,
      FenceOpen
          \o <<"c", "d", " ", "/", "n", "x", "\n", "c", "d", "\n", "p", "w", "d">>
          \o FenceClose \o <<"\n">>,
      FenceOpen \o FenceClose }

Init ==
    /\ pc = "AwaitingUserInput"
    /\ chat_history = <<>>
    /\ ai_is_working = FALSE
    /\ commands = <<>>
    /\ keuze = <<>>
    /\ to_execute = <<>>
    /\ executed_outputs = <<>>
    /\ tool_output_str = <<>>
    /\ cwd = Home
    /\ last_event = "start"
    /\ run_log = <<>>
    /\ out_log = <<>>
    /\ typed = <<>>
    /\ ex_in = <<>>
    /\ ex = NoCall
    /\ sel_in = <<>>
    /\ sel_max = 1
    /\ sel_out = "none"
    /\ par_in = <<>>
    /\ par_out = NotParsed

\* lines 204-212: read a line; exit/quit ends the session, anything else is
\* appended as a user turn and starts the AI loop
UserInput ==
    /\ pc = "AwaitingUserInput"
    /\ \E line \in UserLines :
        LET user_input == PromptAsk(line) IN
        /\ typed' = line
        /\ IF IsExit(user_input)
           THEN /\ pc' = "Exited"
                /\ last_event' = "exit"
                /\ UNCHANGED <<chat_history, ai_is_working>>
           ELSE /\ Len(chat_history) < MaxTurns
                /\ chat_history' = AppendTurn(chat_history, "user", user_input)
                /\ ai_is_working' = TRUE
                /\ pc' = LoopHead(TRUE)
                /\ last_event' = "input"
    /\ UNCHANGED <<commands, keuze, to_execute, executed_outputs,
                   tool_output_str, cwd, run_log, out_log, ex_in, ex, selVars,
                   parVars>>

BackendReply_keepsWorking ==
    /\ pc = "AIWorking"
    /\ Len(chat_history) < MaxTurns
    /\ \E ai_response_text \in Responses :
        /\ commands' = parse_ai_response(ai_response_text).commands
        /\ chat_history' = AppendTurn(chat_history, "model", ai_response_text)
        /\ pc' = IF commands' = <<>> THEN LoopHead(ai_is_working)
                 ELSE "AwaitingUserDecision"
    /\ last_event' = "backend_ok"
    /\ UNCHANGED <<ai_is_working, keuze, to_execute, executed_outputs,
                   tool_output_str, cwd, run_log, out_log, typed, ex_in, ex,
                   selVars, parVars>>

\* lines 215-232: the backend returned a text; it is parsed and appended as a
\* model turn; without commands the turn is over, otherwise the user is asked
BackendReply ==
    /\ pc = "AIWorking"
    /\ Len(chat_history) < MaxTurns
    /\ \E ai_response_text \in Responses :
        /\ commands' = parse_ai_response(ai_response_text).commands
        /\ chat_history' = AppendTurn(chat_history, "model", ai_response_text)
        /\ IF commands' = <<>>
           THEN /\ ai_is_working' = FALSE
                /\ pc' = LoopHead(FALSE)
           ELSE /\ ai_is_working' = ai_is_working
                /\ pc' = "AwaitingUserDecision"
    /\ last_event' = "backend_ok"
    /\ UNCHANGED <<keuze, to_execute, executed_outputs, tool_output_str, cwd,
                   run_log, out_log, typed, ex_in, ex, selVars, parVars>>

BackendError_retry ==
    /\ pc = "AIWorking"
    /\ pc' = LoopHead(ai_is_working)
    /\ last_event' = "backend_error"
    /\ UNCHANGED <<ai_is_working, chat_history, commands, keuze, to_execute,
                   executed_outputs, tool_output_str, cwd, run_log, out_log,
                   typed, ex_in, ex, selVars, parVars>>

\* lines 215 and 268-270: get_ai_response raised; the error is printed and
\* the AI loop is left
BackendError ==
    /\ pc = "AIWorking"
    /\ ai_is_working' = FALSE
    /\ pc' = LoopHead(FALSE)
    /\ last_event' = "backend_error"
    /\ UNCHANGED <<chat_history, commands, keuze, to_execute, executed_outputs,
                   tool_output_str, cwd, run_log, out_log, typed, ex_in, ex,
                   selVars, parVars>>

\* lines 237-238 and 243-244 followed by 250-251: commands were chosen
DecideRun(chosen) ==
    /\ to_execute' = chosen
    /\ tool_output_str' = <<>>
    /\ executed_outputs' = <<>>
    /\ pc' = "Executing"
    /\ last_event' = "decision_run"
    /\ UNCHANGED chat_history

DecideSkip_noNote ==
    /\ to_execute' = <<>>
    /\ tool_output_str' = <<>>
    /\ pc' = LoopHead(ai_is_working)
    /\ last_event' = "skip"
    /\ UNCHANGED <<chat_history, executed_outputs>>

\* lines 239-240 and 265-266: skipped; the note is appended as a user turn
DecideSkip ==
    /\ Len(chat_history) < MaxTurns
    /\ to_execute' = <<>>
    /\ tool_output_str' = SkippedText
    /\ chat_history' = AppendTurn(chat_history, "user", SkippedText)
    /\ pc' = LoopHead(ai_is_working)
    /\ last_event' = "skip"
    /\ UNCHANGED executed_outputs

DecideInterrupt_dropsInput(k) ==
    /\ to_execute' = <<>>
    /\ tool_output_str' = <<>>
    /\ pc' = LoopHead(ai_is_working)
    /\ last_event' = "interrupt"
    /\ UNCHANGED <<chat_history, executed_outputs>>

DecideInterrupt_endsTurn(k) ==
    /\ Len(chat_history) < MaxTurns
    /\ to_execute' = <<>>
    /\ tool_output_str' = <<>>
    /\ chat_history' = AppendTurn(chat_history, "user", k)
    /\ pc' = "AwaitingUserInput"
    /\ last_event' = "interrupt"
    /\ UNCHANGED executed_outputs

\* lines 245-248: no valid selection; the input is appended as a user turn
\* and the loop goes on with the next backend call
DecideInterrupt(k) ==
    /\ Len(chat_history) < MaxTurns
    /\ to_execute' = <<>>
    /\ tool_output_str' = <<>>
    /\ chat_history' = AppendTurn(chat_history, "user", k)
    /\ pc' = LoopHead(ai_is_working)
    /\ last_event' = "interrupt"
    /\ UNCHANGED executed_outputs

\* lines 232-251: read the decision and branch on it
Decide ==
    /\ pc = "AwaitingUserDecision"
    /\ \E line \in DecisionLines :
        LET k == Lower(PromptAskDefault(line, <<"y">>)) IN
        /\ typed' = line
        /\ keuze' = k
        /\ IF k \in YesWords THEN DecideRun(commands)
           ELSE IF k \in NoWords THEN DecideSkip
           ELSE LET selected_indices == parse_selection(k, Len(commands)) IN
                IF selected_indices # <<>>
                THEN DecideRun(SelectedCommands(commands, selected_indices))
                ELSE DecideInterrupt(k)
    /\ run_log' = <<>>
    /\ out_log' = <<>>
    /\ UNCHANGED <<ai_is_working, commands, cwd, ex_in, ex, selVars, parVars>>

\* lines 252-261: one iteration of `for cmd in to_execute`
ExecuteStep ==
    /\ pc = "Executing"
    /\ Len(executed_outputs) < Len(to_execute)
    /\ LET cmd == to_execute[Len(executed_outputs) + 1] IN
       \E r \in execute_command(cmd, cwd) :
        /\ ex' = ExRecord(cmd, cwd, r)
        /\ cwd' = r.cwd
        /\ run_log' = Append(run_log, cmd)
        /\ out_log' = Append(out_log, r.output)
        /\ IF r.raised
           THEN /\ ai_is_working' = FALSE       \* lines 268-270
                /\ pc' = LoopHead(FALSE)
                /\ last_event' = "exec_raised"
                /\ UNCHANGED executed_outputs
           ELSE /\ executed_outputs' = Append(executed_outputs, OutputBlock(cmd, r.output))
                /\ last_event' = "exec"
                /\ UNCHANGED <<ai_is_working, pc>>
    /\ UNCHANGED <<chat_history, commands, keuze, to_execute, tool_output_str,
                   typed, ex_in, selVars, parVars>>

FinishBatch_endsTurn ==
    /\ pc = "Executing"
    /\ Len(executed_outputs) = Len(to_execute)
    /\ Len(chat_history) < MaxTurns
    /\ tool_output_str' = ToolOutputText(executed_outputs)
    /\ chat_history' = AppendTurn(chat_history, "user", tool_output_str')
    /\ ai_is_working' = FALSE
    /\ pc' = LoopHead(FALSE)
    /\ last_event' = "tool_output"
    /\ UNCHANGED <<commands, keuze, to_execute, executed_outputs, cwd,
                   run_log, out_log, typed, ex_in, ex, selVars, parVars>>

\* lines 263-266: the loop is over; the blocks are joined into one
\* tool-output turn, and the while loop goes round again
FinishBatch ==
    /\ pc = "Executing"
    /\ Len(executed_outputs) = Len(to_execute)
    /\ Len(chat_history) < MaxTurns
    /\ tool_output_str' = ToolOutputText(executed_outputs)
    /\ chat_history' = AppendTurn(chat_history, "user", tool_output_str')
    /\ pc' = LoopHead(ai_is_working)
    /\ last_event' = "tool_output"
    /\ UNCHANGED <<ai_is_working, commands, keuze, to_execute, executed_outputs,
                   cwd, run_log, out_log, typed, ex_in, ex, selVars, parVars>>

Next ==
    \/ UserInput
    \/ BackendReply
    \/ BackendError
    \/ Decide
    \/ ExecuteStep
    \/ FinishBatch

Spec == Init /\ [][Next]_vars

(***************************************************************************)
(* The parse_selection probe: Init draws the arguments, SelCall applies    *)
(* the function.                                                           *)
(***************************************************************************)
SelAlphabet == {"1", "2", "3", "-", ",", " ", "x"}

SelExamples ==
    { <<"1", ",", "3", "-", "4">>,
      <<"3", "-", "4", ",", "1">>,
      <<"+", "2", ",", "0", "1">>,
      <<"1", "-", "2", "-", "3", ",", "2">>,
      <<"4", "-", "3", ",", "5">>,
      <<"1", "0", ",", "2", "-", "9">>,
      <<"3", ",", "1", ",", "3">> }

SelStrings ==
    (UNION {[1..n -> SelAlphabet] : n \in 0..MaxSelLen}) \cup SelExamples

IdleMain ==
    /\ pc = "Idle"
    /\ chat_history = <<>>
    /\ ai_is_working = FALSE
    /\ commands = <<>>
    /\ keuze = <<>>
    /\ to_execute = <<>>
    /\ executed_outputs = <<>>
    /\ tool_output_str = <<>>
    /\ last_event = "start"
    /\ run_log = <<>>
    /\ out_log = <<>>
    /\ typed = <<>>

IdlePar ==
    /\ par_in = <<>>
    /\ par_out = NotParsed

IdleSel ==
    /\ sel_in = <<>>
    /\ sel_max = 1
    /\ sel_out = "none"

IdleExec ==
    /\ ex_in = <<>>
    /\ ex = NoCall

InitSel ==
    /\ IdleMain
    /\ IdleExec
    /\ IdlePar
    /\ cwd = <<"/">>
    /\ sel_in \in SelStrings
    /\ sel_max \in 1..MaxNum
    /\ sel_out = "none"

SelCall ==
    /\ sel_out = "none"
    /\ sel_out' = parse_selection(sel_in, sel_max)
    /\ UNCHANGED <<sel_in, sel_max, mainVars, cwd, ex_in, ex, parVars>>

NextSel == SelCall

SpecSel == InitSel /\ [][NextSel]_vars

(***************************************************************************)
(* The execute_command probe                                               *)
(***************************************************************************)
ExecCommands ==
    { <<"c", "d">>,
      <<"c", "d", " ", "/", "t", "m", "p">>,
      <<" ", "c", "d", " ", " ", "/", "t", "m", "p", " ">>,
      <<"c", "d", " ", "/", "n", "x">>,
      <<"c", "d", " ", "/", "l", "k">>,
      <<"c", "d", " ", "~">>,
      <<"c", "d", " ", "t", "m", "p">>,
      <<"c", "d", "\t", "/", "t", "m", "p">>,
      <<"c", "d", "x">>,
      <<"l", "s">>,
      <<"f", "a", "l", "s", "e">>,
      <<"s", "l", "e", "e", "p", " ", "6", "0">> }

InitExec ==
    /\ IdleMain
    /\ IdleSel
    /\ IdlePar
    /\ cwd \in Dirs
    /\ ex_in \in ExecCommands
    /\ ex = NoCall

ExecCall ==
    /\ ex = NoCall
    /\ \E r \in execute_command(ex_in, cwd) :
        /\ ex' = ExRecord(ex_in, cwd, r)
        /\ cwd' = r.cwd
    /\ UNCHANGED <<ex_in, mainVars, selVars, parVars>>

NextExec == ExecCall

SpecExec == InitExec /\ [][NextExec]_vars

(***************************************************************************)
(* The parse_ai_response probe: Init draws the text, ParCall applies the   *)
(* function.  Texts are built from up to MaxPieces pieces.                 *)
(***************************************************************************)
Fence3 == <<BT, BT, BT>>

ParPieces == { FenceTag, Fence3, <<"\n">>, <<" ">>, <<"x">> }

RECURSIVE Concat(_)
Concat(pieces) ==
    IF pieces = <<>> THEN <<>> ELSE Head(pieces) \o Concat(Tail(pieces))

\* "Do X.\n```bash\nls -la\npwd\n```"
ParExampleDoX ==
    <<"D", "o", " ", "X", ".", "\n">> \o FenceOpen
        \o <<"l", "s", " ", "-", "l", "a", "\n", "p", "w", "d">> \o FenceClose

\* "All done!"
ParExampleAllDone == <<"A", "l", "l", " ", "d", "o", "n", "e", "!">>

\* "Done.\n```bash\n```": a report followed by an empty block
ParExampleEmptyBlock ==
    <<"D", "o", "n", "e", ".", "\n">> \o FenceTag \o <<"\n">> \o Fence3

\* "See ```bash x\n```bash\nx\n```": the tag is named before the block
ParExampleTagBefore ==
    <<"S", "e", "e", " ">> \o FenceTag \o <<" ", "x", "\n">> \o FenceOpen
        \o <<"x">> \o FenceClose

ParExamples ==
    { ParExampleDoX, ParExampleAllDone, ParExampleEmptyBlock, ParExampleTagBefore }

ParTexts ==
    { Concat(ps) : ps \in UNION { [1..n -> ParPieces] : n \in 0..MaxPieces } }
        \cup ParExamples

InitPar ==
    /\ IdleMain
    /\ IdleSel
    /\ IdleExec
    /\ cwd = <<"/">>
    /\ par_in \in ParTexts
    /\ par_out = NotParsed

ParCall ==
    /\ ~par_out.called
    /\ par_out' = [called |-> TRUE,
                   explanation |-> parse_ai_response(par_in).explanation,
                   commands |-> parse_ai_response(par_in).commands]
    /\ UNCHANGED <<par_in, mainVars, cwd, ex_in, ex, selVars>>

NextPar == ParCall

SpecPar == InitPar /\ [][NextPar]_vars

(***************************************************************************)
(* Claims about parse_selection (checked under SpecSel)                    *)
(***************************************************************************)
SelReturned == sel_out # "none"

\* C9: for every selection string and every max_num >= 1, every index that
\* parse_selection returns lies in [0, max_num), and the returned list is
\* strictly ascending (hence without duplicates).
C9_IndicesInRangeAscending ==
    SelReturned =>
        /\ \A k \in 1..Len(sel_out) : 0 <= sel_out[k] /\ sel_out[k] < sel_max
        /\ \A k \in 1..(Len(sel_out) - 1) : sel_out[k] < sel_out[k + 1]

\* a call whose input lists the indices out of order and one of them twice
C9_Witness ==
    /\ SelReturned
    /\ sel_in = <<"3", ",", "1", ",", "3">>
    /\ sel_max = 3
    /\ sel_out = <<0, 2>>

\* What one comma-separated part stands for, read from the part alone: a
\* single integer n with 1 <= n <= max_num stands for {n-1}, a range a-b
\* with 1 <= a <= b <= max_num for {a-1..b-1}, anything else for nothing.
PartMeaning(raw, max_num) ==
    LET part == Strip(raw)
        sides == Split(part, "-")
        isNumber == ~Contains(part, "-") /\ PyInt(part).ok
        isRange == Len(sides) = 2 /\ PyInt(sides[1]).ok /\ PyInt(sides[2]).ok
    IN  { i \in 0..(max_num - 1) :
            \/ isNumber /\ PyInt(part).val = i + 1
            \/ /\ isRange
               /\ 1 <= PyInt(sides[1]).val
               /\ PyInt(sides[2]).val <= max_num
               /\ PyInt(sides[1]).val <= i + 1
               /\ i + 1 <= PyInt(sides[2]).val }

SelMeaning(selection_str, max_num) ==
    LET parts == Split(selection_str, ",")
    IN  UNION { PartMeaning(parts[k], max_num) : k \in 1..Len(parts) }

\* C10: the result of parse_selection is exactly the union, over the
\* comma-separated parts, of {n-1} for a single integer n in [1, max_num] and
\* {a-1..b-1} for a range a-b with 1 <= a <= b <= max_num; every other part
\* contributes nothing and leaves the contribution of the other parts alone
\* ("1,3-4" with max_num 5 gives [0,2,3]; "" gives []).
C10_ResultIsUnionOfValidParts ==
    SelReturned =>
        /\ { sel_out[k] : k \in 1..Len(sel_out) } = SelMeaning(sel_in, sel_max)
        /\ Len(sel_out) = Cardinality(SelMeaning(sel_in, sel_max))
        /\ (sel_in = <<"1", ",", "3", "-", "4">> /\ sel_max = 5) => sel_out = <<0, 2, 3>>
        /\ sel_in = <<>> => sel_out = <<>>

\* a call where a valid number, an unparseable part and a valid range share
\* one string, and the invalid part comes first
C10_Witness ==
    \/ /\ SelReturned
       /\ sel_in = <<"1", "-", "2", "-", "3", ",", "2">>
       /\ sel_max = 3
       /\ sel_out = <<1>>
    \/ /\ SelReturned
       /\ sel_in = <<"1", ",", "3", "-", "4">>
       /\ sel_max = 5
       /\ sel_out = <<0, 2, 3>>

(***************************************************************************)
(* Claims about parse_ai_response (checked under SpecPar)                  *)
(***************************************************************************)
\* A shell-tagged fenced block, read from the text alone: the tag and a
\* newline open it at i, and the first later line that begins with a fence
\* closes it; the body is what lies between the two lines (nothing, when
\* the closing line follows the opening line directly).
BlockCloses(text, i) ==
    { c \in (i + Len(FenceOpen))..Len(text) :
        text[c - 1] = "\n" /\ MatchAt(text, c, Fence3) }

BlockOpens(text) ==
    { i \in 1..Len(text) : MatchAt(text, i, FenceOpen) /\ BlockCloses(text, i) # {} }

BlockStart(text) == MinOf(BlockOpens(text))

BlockBody(text) ==
    LET i == BlockStart(text)
        c == MinOf(BlockCloses(text, i))
    IN  IF c = i + Len(FenceOpen) THEN <<>>
        ELSE SubSeq(text, i + Len(FenceOpen), c - 2)

\* C11: for every response that contains a shell-tagged fenced block (an
\* empty body included), the explanation returned is the trimmed text before
\* the start of the block and the commands are the non-empty lines of the
\* body, trimmed, in their order.
C11_BlockGivesExplanationAndCommands ==
    (par_out.called /\ BlockOpens(par_in) # {}) =>
        /\ par_out.explanation = Strip(SubSeq(par_in, 1, BlockStart(par_in) - 1))
        /\ par_out.commands = StrippedNonEmpty(SplitLines(BlockBody(par_in)))

\* explanation followed by a rebuilt fence holding the commands one per line
Rebuild(explanation, cmds) ==
    explanation \o <<"\n">> \o FenceOpen \o Join(cmds, <<"\n">>) \o FenceClose

TagCount(text) == Cardinality({ k \in 1..Len(text) : MatchAt(text, k, FenceTag) })

\* C12: for every text with at most one shell-tagged fenced block, parsing
\* the reconstruction of what the parser returned (the explanation followed
\* by a rebuilt fence with the commands one per line) returns the same
\* explanation and the same commands.
C12_ParsingIdempotent ==
    (par_out.called /\ TagCount(par_in) <= 1) =>
        LET again == parse_ai_response(Rebuild(par_out.explanation, par_out.commands))
        IN  /\ again.explanation = par_out.explanation
            /\ again.commands = par_out.commands

(***************************************************************************)
(* Claims about the turn-taking loop (checked under Spec)                  *)
(***************************************************************************)
IsPrefix(a, b) == Len(a) <= Len(b) /\ SubSeq(b, 1, Len(a)) = a

LastTurn == chat_history[Len(chat_history)]

\* the commands of cmds at the zero-based indices in S, in ascending index order
RECURSIVE PickAscending(_, _, _)
PickAscending(cmds, S, i) ==
    IF i > Len(cmds) THEN <<>>
    ELSE (IF (i - 1) \in S THEN <<cmds[i]>> ELSE <<>>) \o PickAscending(cmds, S, i + 1)

\* C1 as stated: once the batch has run and its tool-output turn is
\* appended, the loop waits for a user input line and does not call the
\* backend.
C1_AfterBatchAwaitsUser ==
    last_event = "tool_output" => pc = "AwaitingUserInput"

\* C1 amended: once the batch has run and its tool-output turn is appended,
\* the loop is still working and the next event is a backend call, which is
\* handed the tool output as the last turn.
C1_AfterBatchCallsBackend ==
    last_event = "tool_output" =>
        /\ pc = "AIWorking"
        /\ ai_is_working
        /\ LastTurn = Turn("user", tool_output_str)

\* two commands ran and their output is about to go to the backend
C1_Witness ==
    /\ last_event = "tool_output"
    /\ Len(run_log) = 2
    /\ pc = "AIWorking"
    /\ Len(chat_history) = 3

\* C2: the conversation is append-only: every step leaves the conversation
\* it found as a prefix of the conversation it leaves.
C2_AppendOnly ==
    [][IsPrefix(chat_history, chat_history')]_vars

\* a conversation of five turns (a model turn fourth, after a user turn)
\* whose last turn is the note of a skip
C2_Witness ==
    /\ Len(chat_history) = 5
    /\ chat_history[3].role = "user"
    /\ chat_history[4].role = "model"
    /\ last_event = "skip"

\* C3: on y/yes every parsed command is executed once, in the listed order;
\* on a selection with a non-empty index set exactly the commands at those
\* indices are executed, once each, in ascending index order, and no other.
C3_ExecutesChosenInOrder ==
    LET chosen == IF keuze \in YesWords THEN commands
                  ELSE PickAscending(commands, SelMeaning(keuze, Len(commands)), 1)
    IN  /\ pc = "Executing" => IsPrefix(run_log, chosen)
        /\ last_event = "decision_run" => (chosen # <<>> /\ to_execute = chosen)
        /\ last_event = "tool_output" => run_log = chosen

\* "3,1" was typed for three commands: the first and the third ran, in that order
C3_Witness ==
    /\ last_event = "tool_output"
    /\ keuze = <<"3", ",", "1">>
    /\ Len(commands) = 3
    /\ run_log = <<commands[1], commands[3]>>

\* C4: when the decision is neither y/yes nor n/no and the selection parser
\* finds no index in it, no command is executed, no tool-output turn is
\* appended, exactly one user turn holding the input is appended, and the
\* next event is a backend call.
C4_InterruptGoesToBackend ==
    [][(/\ pc = "AwaitingUserDecision"
        /\ pc' # "AwaitingUserDecision"
        /\ keuze' \notin (YesWords \cup NoWords)
        /\ SelMeaning(keuze', Len(commands)) = {})
       => (/\ chat_history' = Append(chat_history, Turn("user", keuze'))
           /\ pc' = "AIWorking"
           /\ ai_is_working'
           /\ run_log' = <<>>
           /\ ex' = ex
           /\ cwd' = cwd)]_vars

\* "Ok?" was typed at the Choice prompt
C4_Witness ==
    /\ last_event = "interrupt"
    /\ keuze = <<"o", "k", "?">>
    /\ LastTurn = Turn("user", keuze)
    /\ pc = "AIWorking"

\* C5: when the backend call raises, no turn is appended, no command is
\* executed, the backend is not called again for that turn, and the loop
\* waits for the next user input with the session still running.
C5_BackendErrorEndsTurn ==
    [][(pc = "AIWorking" /\ last_event' = "backend_error")
       => (/\ chat_history' = chat_history
           /\ ex' = ex
           /\ cwd' = cwd
           /\ run_log' = run_log
           /\ ai_is_working' = FALSE
           /\ pc' = "AwaitingUserInput")]_vars

\* the backend failed on the call that followed a tool-output turn
C5_Witness ==
    /\ last_event = "backend_error"
    /\ pc = "AwaitingUserInput"
    /\ Len(chat_history) = 3
    /\ LastTurn.role = "user"

\* the blocks of a batch, read from the commands run and what each returned:
\* "$ ", the command, a newline and the output, one block after the other
RECURSIVE BlocksText(_, _)
BlocksText(cmds, outs) ==
    IF cmds = <<>> THEN <<>>
    ELSE <<"$", " ">> \o Head(cmds) \o <<"\n">> \o Head(outs)
         \o (IF Len(cmds) > 1 THEN <<"\n">> \o BlocksText(Tail(cmds), Tail(outs))
             ELSE <<>>)

DecisionStep == pc = "AwaitingUserDecision" /\ pc' # "AwaitingUserDecision"

\* C13: on n/no no command is executed, the working directory is unchanged,
\* and exactly one tool-output turn saying that the user skipped the
\* commands is appended.
C13_SkipAppendsNoteOnly ==
    [][(DecisionStep /\ keuze' \in NoWords)
       => (/\ chat_history' =
                Append(chat_history,
                       Turn("user", <<"TOOL_OUTPUT:", "\n", "(Commands skipped by user)">>))
           /\ pc' # "Executing"
           /\ to_execute' = <<>>
           /\ run_log' = <<>>
           /\ ex' = ex
           /\ cwd' = cwd)]_vars

\* "nO" was typed for a response with commands
C13_Witness ==
    /\ last_event = "skip"
    /\ typed = <<"n", "O">>
    /\ keuze = <<"n", "o">>
    /\ LastTurn = Turn("user", SkippedText)
    /\ run_log = <<>>

\* C14: a batch of k >= 1 commands appends exactly one tool-output turn, and
\* only after its last command has finished; the turn holds exactly k
\* blocks, one per executed command in execution order, each the literal
\* command followed by its output.
C14_OneToolOutputPerBatch ==
    [][/\ (pc = "Executing" /\ chat_history' # chat_history)
          => (/\ Len(run_log) >= 1
              /\ run_log = to_execute
              /\ Len(out_log) = Len(run_log)
              /\ chat_history' =
                   Append(chat_history,
                          Turn("user", <<"TOOL_OUTPUT:", "\n">> \o BlocksText(run_log, out_log)))
              /\ pc' # "Executing")
       /\ (pc = "Executing" /\ pc' # "Executing")
          => Len(chat_history') = Len(chat_history) + 1]_vars

\* a batch of three commands has been reported in one turn
C14_Witness ==
    /\ last_event = "tool_output"
    /\ Len(run_log) = 3
    /\ Len(out_log) = 3
    /\ LastTurn.parts[1] = <<"TOOL_OUTPUT:", "\n">> \o BlocksText(run_log, out_log)

\* C15: when the parsed response has no command, the model turn is
\* appended, no tool-output turn is appended, no decision is asked, nothing
\* is executed, and the loop waits for the next user input.
C15_NoCommandsEndsTurn ==
    [][(/\ pc = "AIWorking"
        /\ last_event' = "backend_ok"
        /\ parse_ai_response(chat_history'[Len(chat_history')].parts[1]).commands = <<>>)
       => (/\ Len(chat_history') = Len(chat_history) + 1
           /\ SubSeq(chat_history', 1, Len(chat_history)) = chat_history
           /\ chat_history'[Len(chat_history')].role = "model"
           /\ pc' = "AwaitingUserInput"
           /\ ai_is_working' = FALSE
           /\ ex' = ex
           /\ run_log' = run_log
           /\ cwd' = cwd)]_vars

\* the backend answered with an empty fenced block
C15_Witness ==
    /\ last_event = "backend_ok"
    /\ LastTurn = Turn("model", FenceOpen \o FenceClose)
    /\ commands = <<>>
    /\ pc = "AwaitingUserInput"

\* C16: at the user prompt an input equal to exit or quit in any letter case
\* ends the session: no turn is appended, the backend is not called, and no
\* further step is taken.
C16_ExitTerminates ==
    [][/\ pc # "Exited"
       /\ (/\ pc = "AwaitingUserInput"
           /\ pc' # "AwaitingUserInput"
           /\ Lower(typed') \in { <<"e", "x", "i", "t">>, <<"q", "u", "i", "t">> })
          => (/\ pc' = "Exited"
              /\ chat_history' = chat_history
              /\ ai_is_working' = ai_is_working)]_vars

\* "Exit" was typed after a completed turn
C16_Witness ==
    /\ pc = "Exited"
    /\ typed = <<"E", "x", "i", "t">>
    /\ Len(chat_history) = 2
    /\ LastTurn.role = "model"

ExecFailures == {"chdir_failed", "timeout", "launch_failure"}

\* C17: a failed command of a batch (failed cd, timeout, launch error) does
\* not stop the batch: the loop goes on with the commands that remain, and
\* the tool-output turn has one block for every selected command, the
\* failed one included.
C17_FailureDoesNotStopBatch ==
    /\ [][(/\ pc = "Executing"
           /\ Len(run_log') = Len(run_log) + 1
           /\ ex'.how \in ExecFailures)
          => (/\ pc' = "Executing"
              /\ ai_is_working' = ai_is_working
              /\ to_execute' = to_execute
              /\ Len(executed_outputs') = Len(run_log'))]_vars
    /\ [](last_event = "tool_output"
          => (/\ run_log = to_execute
              /\ Len(out_log) = Len(to_execute)
              /\ LastTurn.parts[1] =
                    <<"TOOL_OUTPUT:", "\n">> \o BlocksText(to_execute, out_log)))

\* the first of three commands was a cd that failed, the other two ran too
C17_Witness ==
    /\ last_event = "tool_output"
    /\ Len(to_execute) = 3
    /\ Len(run_log) = 3
    /\ out_log[1] # <<>>
    /\ Head(out_log[1]) = WarningMarker
    /\ run_log[1] = <<"c", "d", " ", "/", "n", "x">>

\* C18 as stated: an empty line at the Choice prompt is no valid selection
\* and causes no command to be executed.
C18_EmptyLineRunsNothing ==
    (typed = <<>> /\ last_event \in {"exec", "tool_output"}) => run_log = <<>>

\* C18 amended: an empty line at the Choice prompt is the default decision y:
\* every parsed command is executed, in the listed order.
C18_EmptyLineIsYes ==
    /\ [][(DecisionStep /\ typed' = <<>>)
          => (/\ keuze' = <<"y">>
              /\ to_execute' = commands
              /\ pc' = "Executing"
              /\ chat_history' = chat_history)]_vars
    /\ []((typed = <<>> /\ last_event = "tool_output") => run_log = commands)

\* Enter alone was pressed and both commands of the response ran
C18_Witness ==
    /\ typed = <<>>
    /\ last_event = "tool_output"
    /\ Len(commands) = 2
    /\ run_log = commands

\* C19: on an interrupt the user turn appended holds the decision input
\* exactly as the user typed it, with no change of letter case.
C19_InterruptForwardedAsTyped ==
    last_event = "interrupt" => LastTurn = Turn("user", typed)

\* C20: whenever the backend is called the conversation is non-empty and its
\* last turn has role user, and no two adjacent turns are model turns.
C20_BackendSeesUserTurnLast ==
    /\ pc = "AIWorking" => (chat_history # <<>> /\ LastTurn.role = "user")
    /\ \A i \in 1..(Len(chat_history) - 1) :
          ~(chat_history[i].role = "model" /\ chat_history[i + 1].role = "model")

\* the backend is about to be called after an interrupt that followed a
\* skip and its answer
C20_Witness ==
    /\ pc = "AIWorking"
    /\ last_event = "interrupt"
    /\ Len(chat_history) = 5
    /\ chat_history[3].parts[1] = SkippedText
    /\ chat_history[4].role = "model"

(***************************************************************************)
(* Claims about execute_command (checked under SpecExec)                   *)
(***************************************************************************)
ExCalled == ex.how # "none"

ExCommand == Strip(ex.command)

\* C6: for every command that is bare `cd` or begins with the prefix `cd `,
\* the executor changes the working directory directly and never takes the
\* shell subprocess path.
C6_CdNeverTakesShellPath ==
    (ExCalled /\ (ExCommand = <<"c", "d">> \/ StartsWith(ExCommand, <<"c", "d", " ">>)))
        => ex.path = "chdir"

\* C7 as stated: every execution error of a non-cd command (launch failure,
\* non-zero exit status, timeout) comes back as output text that carries the
\* warning marker, and is never raised.
C7_EveryErrorCarriesWarning ==
    (/\ ExCalled
     /\ ex.path = "shell"
     /\ \/ ex.how \in {"timeout", "launch_failure"}
        \/ ex.how = "exit" /\ ex.rc # 0)
        => Contains(ex.output, WarningMarker) /\ ~ex.raised

\* C7 amended: nothing that happens to a non-cd command is raised to the
\* caller; a launch failure or a timeout comes back as text that begins with
\* the warning marker; an exit status, zero or not, is no error to the
\* executor: the text is the trimmed stdout + "\n" + stderr, or the
\* success-marked placeholder when both streams are blank.
C7_ExceptionsBecomeWarnings ==
    (ExCalled /\ ex.path = "shell") =>
        /\ ~ex.raised
        /\ ex.how \in {"timeout", "launch_failure"} =>
              (ex.output # <<>> /\ Head(ex.output) = WarningMarker)
        /\ ex.how = "exit" =>
              ex.output =
                 IF Strip(ex.stdout) = <<>> /\ Strip(ex.stderr) = <<>>
                 THEN <<OkMarker, " (Command executed, no output)">>
                 ELSE Strip(Strip(ex.stdout) \o <<"\n">> \o Strip(ex.stderr))

\* `sleep 60` ran into the timeout and came back as a warning
C7_Witness ==
    /\ ExCalled
    /\ ex.command = <<"s", "l", "e", "e", "p", " ", "6", "0">>
    /\ ex.how = "timeout"
    /\ Head(ex.output) = WarningMarker

\* C8: when a cd command fails (invalid or unreadable target), the returned
\* message begins with the warning marker and the working directory is the
\* same after the call as before it.
C8_FailedCdWarnsAndStays ==
    (ExCalled /\ ex.path = "chdir" /\ ex.how = "chdir_failed") =>
        /\ ex.output # <<>>
        /\ Head(ex.output) = WarningMarker
        /\ cwd = ex.cwd_before

\* `cd /nx` (no such directory) was tried from /tmp
C8_Witness ==
    /\ ExCalled
    /\ ex.command = <<"c", "d", " ", "/", "n", "x">>
    /\ ex.how = "chdir_failed"
    /\ ex.cwd_before = <<"/", "t", "m", "p">>
    /\ cwd = <<"/", "t", "m", "p">>

====
